---- MODULE Spec2Model ----
(***************************************************************************)
(* Blog topic monitor: topic-instance extraction, cluster assignment       *)
(* (externally grouped path and degraded fallback), heat scoring, sorting  *)
(* and ranking, the run of the pipeline with its persisted artifacts, the  *)
(* runs of two time slots of one day, the translation of a report's        *)
(* articles, the fetch of one source with its retries and the calls that   *)
(* write the daily report, as implemented in scripts/analyze_topics.py,    *)
(* scripts/calculate_heat.py, scripts/scheduler.py,                        *)
(* scripts/generate_report.py and scripts/fetch_blogs.py.                  *)
(*                                                                         *)
(* Numbers: a discussion depth is kept in tenths (0.8 is 8), an average    *)
(* depth as the exact fraction num/den, a category weight in hundredths    *)
(* (0.85 is 85) and a heat score in tenths (38.0 is 380).                  *)
(***************************************************************************)
EXTENDS Integers, Sequences, FiniteSets, TLC

VARIABLES
    pc,                 \* position in the running entry point
    articles,           \* result of fetch_all_articles
    analyzed_articles,  \* list built by analyze_all_articles
    response,           \* outcome of the clustering call of cluster_topics
    path,               \* block of cluster_topics that returned: none, early, grouped, fallback
    all_topics,         \* topic instances collected by cluster_topics
    topics,             \* list returned by cluster_topics / loaded from topics.json
    scored_topics,      \* list returned by calculate_all_heat_scores
    topics_file,        \* processed/<date>/topics.json
    heat_file,          \* processed/<date>/heat_scores_<slot>.json
    printed,            \* ranks printed by the Top 10 loop of calculate_heat.py
    categories_config,  \* the category table of config/categories.json
    config,             \* the settings of config/config.json the run reads
    extracted,          \* what the extraction service did for each article so far
    top_topics,         \* scored_topics[:topics_per_report] of run_analysis_pipeline
    report_file,        \* reports/<date>.md, a list of blocks
    stages,             \* the stages run_analysis_pipeline has entered, in order
    runs,               \* the locals of the run of each time slot
    heat_files,         \* processed/<date>/heat_scores_<slot>.json of each slot
    unique_topics,      \* the list(set(...)) of each execution of cluster_topics so far
    results,            \* the lists returned by repeated executions of cluster_topics
    batch,              \* the articles handed to translate_articles_batch
    translation,        \* outcome of the translation call
    translated_articles, \* list returned by translate_articles_batch
    feed,               \* the entries of the feed fetch_rss_source requests
    retries,            \* the retries argument of fetch_rss_source
    attempt,            \* the loop variable of fetch_rss_source
    attempt_outcomes,   \* how each attempt of fetch_rss_source ended, in order
    fetched,            \* the list fetch_rss_source returned
    calls               \* the content handed to each write_daily_report call so far

\* the state of run_analysis_pipeline beyond the clustering, of the runs of
\* several slots, of repeated clustering, of the translation, of the fetch of
\* one source and of the calls that write the daily report
orchestratorVars == <<config, extracted, top_topics, report_file, stages>>
slotVars == <<runs, heat_files>>
repeatVars == <<unique_topics, results>>
translateVars == <<batch, translation, translated_articles>>
fetchVars == <<feed, retries, attempt, attempt_outcomes, fetched>>
dailyVars == <<calls>>

vars == <<pc, articles, analyzed_articles, response, path, all_topics, topics,
          scored_topics, topics_file, heat_file, printed, categories_config,
          orchestratorVars, slotVars, repeatVars, translateVars, fetchVars, dailyVars>>

(***************************************************************************)
(* Bounds of the model                                                     *)
(***************************************************************************)
MaxArticles == 2    \* articles returned by one fetch
MaxLabels == 3      \* labels the extraction returns in one run, over all articles
MaxGroups == 2      \* groups in one clustering response
MaxClusters == 3    \* clusters in a topics.json handed to calculate_heat.py

(***************************************************************************)
(* Values                                                                  *)
(***************************************************************************)
NoKey == "<absent>"             \* a key that is missing from a dict
Links == {"l1", "l2"}
Labels == {"X", "Y"}
LabelChoices == Labels \cup {""}    \* "" is the empty (falsy) label
DefaultDepth == 5               \* .get(topic, 0.5)
DefaultCategory == "industry"   \* the default category name of .get('category', ...)

\* the sequences over S of length at most n
RECURSIVE SeqsUpTo(_, _)
SeqsUpTo(S, n) ==
    IF n = 0 THEN {<<>>}
    ELSE LET shorter == SeqsUpTo(S, n - 1)
         IN  shorter \cup {Append(s, x) : s \in {t \in shorter : Len(t) = n - 1}, x \in S}

SeqToSet(s) == {s[i] : i \in 1..Len(s)}

EmptyMap == [t \in {} |-> 0]

(***************************************************************************)
(* Inputs: what the feeds, the extraction service and the clustering       *)
(* service may hand to the program                                         *)
(***************************************************************************)
\* fetch_all_articles: the id stands for the title, source, summary,
\* content and published fields; links are not deduplicated by the fetch.
\* Links are only compared with each other, so the first one is called l1.
FetchResults ==
    {[i \in 1..Len(s) |-> [id |-> i, link |-> s[i]]] :
        s \in {t \in SeqsUpTo(Links, MaxArticles) : t = <<>> \/ t[1] = "l1"}}

\* extract_topics_from_article: a parsed answer of the extraction service
\* with 1 to n labels (an answer without labels is taken to be the record
\* EmptyAnalysis below)
DepthMaps == {("X" :> 8)}
Annotations(n) ==
    {[main_topics |-> s, category |-> "tech", discussion_depth |-> d] :
        s \in SeqsUpTo(LabelChoices, n) \ {<<>>}, d \in DepthMaps}

\* the labels returned so far in this run
RECURSIVE LabelsReturned(_, _)
LabelsReturned(arts, i) ==
    IF i > Len(arts) THEN 0
    ELSE Len(arts[i].main_topics) + LabelsReturned(arts, i + 1)

\* the groups a clustering answer may hold; `missing` is the set of keys the
\* dict lacks (a value under a missing key is never read)
ProposedGroups ==
    { [canonical_name |-> "N1", merged_topics |-> {"X"}, category |-> "tech",
       missing |-> {}],
      [canonical_name |-> "N2", merged_topics |-> {"X", "Y"}, category |-> "",
       missing |-> {"category"}],
      [canonical_name |-> "N3", merged_topics |-> {}, category |-> "tech",
       missing |-> {"merged_topics"}] }

\* outcomes of call_zhipu_ai + json.loads in cluster_topics:
\*   raise       the call raises
\*   unparsable  json.loads raises
\*   scalar      a JSON number, boolean or null
\*   object      a JSON object or string with `size` members
\*   array       a JSON array of groups
Responses ==
    {[kind |-> k, size |-> 0, groups |-> <<>>] : k \in {"raise", "unparsable", "scalar"}}
    \cup {[kind |-> "object", size |-> n, groups |-> <<>>] : n \in {0, 1}}
    \cup {[kind |-> "array", size |-> Len(g), groups |-> g] : g \in SeqsUpTo(ProposedGroups, MaxGroups)}

NoCall == [kind |-> "none", size |-> 0, groups |-> <<>>]

\* no translation call was made yet
NoTranslation == [kind |-> "none", size |-> 0, entries |-> <<>>]

(***************************************************************************)
(* analyze_topics.py: analyze_all_articles                                 *)
(***************************************************************************)
\* the record appended for one article when extraction answered
ArticleWithTopics(article, analysis) ==
    [id |-> article.id, link |-> article.link,
     main_topics |-> analysis.main_topics,
     category |-> analysis.category,
     discussion_depth |-> analysis.discussion_depth]

\* extract_topics_from_article's own except branch: the empty result
EmptyAnalysis ==
    [main_topics |-> <<>>, category |-> DefaultCategory, discussion_depth |-> EmptyMap]

\* the except branch of the loop: only main_topics is set
ArticleFailed(article) ==
    [id |-> article.id, link |-> article.link,
     main_topics |-> <<>>, category |-> NoKey, discussion_depth |-> EmptyMap]

(***************************************************************************)
(* analyze_topics.py: cluster_topics, collection of the topic instances    *)
(***************************************************************************)
\* DepthOf with the default dropped: a label missing from the map counts 0
DepthOf_NoDefault(article, topic) ==
    IF topic \in DOMAIN article.discussion_depth
    THEN article.discussion_depth[topic]
    ELSE 0

\* article.get('discussion_depth', {}).get(topic, 0.5)
DepthOf(article, topic) ==
    IF topic \in DOMAIN article.discussion_depth
    THEN article.discussion_depth[topic]
    ELSE DefaultDepth

\* the inner loop over article['main_topics'], from label j on
RECURSIVE ArticleTopics(_, _)
ArticleTopics(article, j) ==
    IF j > Len(article.main_topics) THEN <<>>
    ELSE LET topic == article.main_topics[j]
         IN  IF topic = ""
             THEN ArticleTopics(article, j + 1)
             ELSE <<[topic |-> topic, article |-> article,
                     depth |-> DepthOf(article, topic)]>>
                  \o ArticleTopics(article, j + 1)

\* the outer loop over articles_with_topics, from article i on
RECURSIVE CollectTopics(_, _)
CollectTopics(arts, i) ==
    IF i > Len(arts) THEN <<>>
    ELSE ArticleTopics(arts[i], 1) \o CollectTopics(arts, i + 1)

(***************************************************************************)
(* analyze_topics.py: cluster_topics, the two assignment paths             *)
(***************************************************************************)
\* the dict appended to a cluster's article list
Snapshot(ti) ==
    [article |-> ti.article.id, link |-> ti.article.link, depth |-> ti.depth,
     category |-> IF ti.article.category = NoKey THEN "" ELSE ti.article.category]

RECURSIVE SumDepths(_, _)
SumDepths(arts, i) ==
    IF i > Len(arts) THEN 0 ELSE arts[i].depth + SumDepths(arts, i + 1)

\* AvgDepth that always answers the default 0.5
AvgDepth_Default(arts) == [num |-> DefaultDepth, den |-> 10]

\* sum(depths) / len(depths) if depths else 0.5, as the fraction num/den
AvgDepth(arts) ==
    IF Len(arts) > 0
    THEN [num |-> SumDepths(arts, 1), den |-> 10 * Len(arts)]
    ELSE [num |-> DefaultDepth, den |-> 10]

\* the dict appended to the result list
MakeCluster(name, category, arts) ==
    [canonical_name |-> name, category |-> category, articles |-> arts,
     total_mentions |-> Len(arts), avg_depth |-> AvgDepth(arts)]

\* ScanInstances without the check of assigned_articles
RECURSIVE ScanInstances_NoSkip(_, _, _, _, _)
ScanInstances_NoSkip(all, k, merged_topics, assigned_articles, cluster_articles) ==
    IF k > Len(all)
    THEN [articles |-> cluster_articles, assigned |-> assigned_articles]
    ELSE LET ti == all[k]
         IN  IF ti.topic \in merged_topics
             THEN ScanInstances_NoSkip(all, k + 1, merged_topics,
                                       assigned_articles \cup {ti.article.link},
                                       Append(cluster_articles, Snapshot(ti)))
             ELSE ScanInstances_NoSkip(all, k + 1, merged_topics, assigned_articles,
                                       cluster_articles)

\* the loop over all_topics for one group, from instance k on
RECURSIVE ScanInstances(_, _, _, _, _)
ScanInstances(all, k, merged_topics, assigned_articles, cluster_articles) ==
    IF k > Len(all)
    THEN [articles |-> cluster_articles, assigned |-> assigned_articles]
    ELSE LET ti == all[k]
         IN  IF ti.article.link \in assigned_articles
             THEN ScanInstances(all, k + 1, merged_topics, assigned_articles, cluster_articles)
             ELSE IF ti.topic \in merged_topics
             THEN ScanInstances(all, k + 1, merged_topics,
                                assigned_articles \cup {ti.article.link},
                                Append(cluster_articles, Snapshot(ti)))
             ELSE ScanInstances(all, k + 1, merged_topics, assigned_articles, cluster_articles)

\* GroupLoop putting each new cluster in front of the list
RECURSIVE GroupLoop_Prepend(_, _, _, _, _)
GroupLoop_Prepend(all, clusters_raw, i, clusters, assigned_articles) ==
    IF i > Len(clusters_raw)
    THEN [raised |-> FALSE, clusters |-> clusters, assigned |-> assigned_articles]
    ELSE LET cluster == clusters_raw[i]
         IN  IF "canonical_name" \in cluster.missing \/ "merged_topics" \in cluster.missing
             THEN [raised |-> TRUE, clusters |-> clusters, assigned |-> assigned_articles]
             ELSE LET scan == ScanInstances(all, 1, cluster.merged_topics,
                                            assigned_articles, <<>>)
                      category == IF "category" \in cluster.missing
                                  THEN DefaultCategory ELSE cluster.category
                  IN  GroupLoop_Prepend(all, clusters_raw, i + 1,
                                IF Len(scan.articles) > 0
                                THEN <<MakeCluster(cluster.canonical_name,
                                                   category, scan.articles)>> \o clusters
                                ELSE clusters,
                                scan.assigned)

\* GroupLoop without the `if cluster_articles` test
RECURSIVE GroupLoop_KeepEmpty(_, _, _, _, _)
GroupLoop_KeepEmpty(all, clusters_raw, i, clusters, assigned_articles) ==
    IF i > Len(clusters_raw)
    THEN [raised |-> FALSE, clusters |-> clusters, assigned |-> assigned_articles]
    ELSE LET cluster == clusters_raw[i]
         IN  IF "canonical_name" \in cluster.missing \/ "merged_topics" \in cluster.missing
             THEN [raised |-> TRUE, clusters |-> clusters, assigned |-> assigned_articles]
             ELSE LET scan == ScanInstances(all, 1, cluster.merged_topics,
                                            assigned_articles, <<>>)
                      category == IF "category" \in cluster.missing
                                  THEN DefaultCategory ELSE cluster.category
                  IN  GroupLoop_KeepEmpty(all, clusters_raw, i + 1,
                                Append(clusters,
                                       MakeCluster(cluster.canonical_name,
                                                   category, scan.articles)),
                                scan.assigned)

\* the loop over clusters_raw, from group i on; raised = a KeyError left the loop
RECURSIVE GroupLoop(_, _, _, _, _)
GroupLoop(all, clusters_raw, i, clusters, assigned_articles) ==
    IF i > Len(clusters_raw)
    THEN [raised |-> FALSE, clusters |-> clusters, assigned |-> assigned_articles]
    ELSE LET cluster == clusters_raw[i]
         IN  IF "canonical_name" \in cluster.missing \/ "merged_topics" \in cluster.missing
             THEN [raised |-> TRUE, clusters |-> clusters, assigned |-> assigned_articles]
             ELSE LET scan == ScanInstances(all, 1, cluster.merged_topics,
                                            assigned_articles, <<>>)
                      category == IF "category" \in cluster.missing
                                  THEN DefaultCategory ELSE cluster.category
                  IN  GroupLoop(all, clusters_raw, i + 1,
                                IF Len(scan.articles) > 0
                                THEN Append(clusters,
                                            MakeCluster(cluster.canonical_name,
                                                        category, scan.articles))
                                ELSE clusters,
                                scan.assigned)

\* the try block after the prompt is built
TryGrouped(all, resp) ==
    CASE resp.kind \in {"raise", "unparsable", "scalar"} ->
            [raised |-> TRUE, clusters |-> <<>>, assigned |-> {}]
      [] resp.kind = "object" ->
            \* iterating yields the members (strings); indexing one raises
            [raised |-> resp.size > 0, clusters |-> <<>>, assigned |-> {}]
      [] OTHER -> GroupLoop(all, resp.groups, 1, <<>>, {})

\* position of the entry named topic_name in the fallback dict, 0 if absent
RECURSIVE IndexOfName(_, _, _)
IndexOfName(clusters, topic_name, i) ==
    IF i > Len(clusters) THEN 0
    ELSE IF clusters[i].canonical_name = topic_name THEN i
    ELSE IndexOfName(clusters, topic_name, i + 1)

\* FallbackLoop without the check of assigned_articles
RECURSIVE FallbackLoop_NoSkip(_, _, _, _)
FallbackLoop_NoSkip(all, k, clusters, assigned_articles) ==
    IF k > Len(all) THEN clusters
    ELSE LET ti == all[k]
             topic_name == ti.topic
             withKey ==
                 IF IndexOfName(clusters, topic_name, 1) = 0
                 THEN Append(clusters,
                             [canonical_name |-> topic_name,
                              category |-> IF ti.article.category = NoKey
                                           THEN DefaultCategory
                                           ELSE ti.article.category,
                              articles |-> <<>>])
                 ELSE clusters
             at == IndexOfName(withKey, topic_name, 1)
         IN  FallbackLoop_NoSkip(all, k + 1,
                                 [withKey EXCEPT ![at].articles = Append(@, Snapshot(ti))],
                                 assigned_articles \cup {ti.article.link})

\* the article link is in a cluster of another name
MappedElsewhere(clusters, article_link, topic_name) ==
    \E c \in 1..Len(clusters) :
        /\ clusters[c].canonical_name # topic_name
        /\ \E i \in 1..Len(clusters[c].articles) :
              clusters[c].articles[i].link = article_link

\* FallbackLoop skipping an instance only when its article is mapped to
\* another label
RECURSIVE FallbackLoop_SkipOtherLabel(_, _, _, _)
FallbackLoop_SkipOtherLabel(all, k, clusters, assigned_articles) ==
    IF k > Len(all) THEN clusters
    ELSE LET ti == all[k]
             topic_name == ti.topic
             article_link == ti.article.link
         IN  IF MappedElsewhere(clusters, article_link, topic_name)
             THEN FallbackLoop_SkipOtherLabel(all, k + 1, clusters, assigned_articles)
             ELSE LET withKey ==
                          IF IndexOfName(clusters, topic_name, 1) = 0
                          THEN Append(clusters,
                                      [canonical_name |-> topic_name,
                                       category |-> IF ti.article.category = NoKey
                                                    THEN DefaultCategory
                                                    ELSE ti.article.category,
                                       articles |-> <<>>])
                          ELSE clusters
                      at == IndexOfName(withKey, topic_name, 1)
                  IN  FallbackLoop_SkipOtherLabel(all, k + 1,
                                   [withKey EXCEPT ![at].articles = Append(@, Snapshot(ti))],
                                   assigned_articles \cup {article_link})

\* the loop of the except block, from instance k on; clusters is the dict in
\* insertion order
RECURSIVE FallbackLoop(_, _, _, _)
FallbackLoop(all, k, clusters, assigned_articles) ==
    IF k > Len(all) THEN clusters
    ELSE LET ti == all[k]
             topic_name == ti.topic
             article_link == ti.article.link
         IN  IF article_link \in assigned_articles
             THEN FallbackLoop(all, k + 1, clusters, assigned_articles)
             ELSE LET withKey ==
                          IF IndexOfName(clusters, topic_name, 1) = 0
                          THEN Append(clusters,
                                      [canonical_name |-> topic_name,
                                       category |-> IF ti.article.category = NoKey
                                                    THEN DefaultCategory
                                                    ELSE ti.article.category,
                                       articles |-> <<>>])
                          ELSE clusters
                      at == IndexOfName(withKey, topic_name, 1)
                  IN  FallbackLoop(all, k + 1,
                                   [withKey EXCEPT ![at].articles = Append(@, Snapshot(ti))],
                                   assigned_articles \cup {article_link})

\* the except block: fresh dict, fresh mapping, then the result list
Fallback(all) ==
    LET clusters == FallbackLoop(all, 1, <<>>, {})
    IN  [i \in 1..Len(clusters) |->
            MakeCluster(clusters[i].canonical_name, clusters[i].category,
                        clusters[i].articles)]

\* cluster_topics after the instances are collected and found non-empty:
\* the block that returned and the list it returned
AssignClusters(all, resp) ==
    LET try == TryGrouped(all, resp)
    IN  IF try.raised
        THEN [path |-> "fallback", clusters |-> Fallback(all)]
        ELSE [path |-> "grouped", clusters |-> try.clusters]

(***************************************************************************)
(* calculate_heat.py                                                       *)
(***************************************************************************)
DefaultWeight == 50             \* category_weight = 0.5
MentionCap == 600               \* min(..., 60)
TopPrinted == 10                \* scored_topics[:10]

\* the category tables the configuration may hold (weights in hundredths)
CategoryTables ==
    { <<[name |-> "tech", priority_weight |-> 100],
        [name |-> "industry", priority_weight |-> 50],
        [name |-> "misc", priority_weight |-> 0]>>,
      <<[name |-> "tech", priority_weight |-> 85],
        [name |-> "industry", priority_weight |-> 80],
        [name |-> "tech", priority_weight |-> 10]>> }

PipelineTable ==
    <<[name |-> "tech", priority_weight |-> 100],
      [name |-> "industry", priority_weight |-> 80]>>

\* the clusters a topics.json handed to calculate_heat.py may hold; the
\* article lists of the clusters of 5 and more mentions are left out
\* (calculate_heat_score reads total_mentions, never the article list)
SomeArticle(i, d) == [article |-> i, link |-> "l1", depth |-> d, category |-> "tech"]
HeatInputs ==
    { [canonical_name |-> "N1", category |-> "other", total_mentions |-> 2,
       avg_depth |-> [num |-> 14, den |-> 20],
       articles |-> <<SomeArticle(1, 8), SomeArticle(2, 6)>>],
      [canonical_name |-> "N2", category |-> "industry", total_mentions |-> 2,
       avg_depth |-> [num |-> 7, den |-> 10],
       articles |-> <<SomeArticle(5, 7), SomeArticle(6, 7)>>],
      [canonical_name |-> "N3", category |-> "tech", total_mentions |-> 10,
       avg_depth |-> [num |-> 10, den |-> 10], articles |-> <<>>],
      [canonical_name |-> "N4", category |-> "tech", total_mentions |-> 20,
       avg_depth |-> [num |-> 10, den |-> 10], articles |-> <<>>],
      [canonical_name |-> "N5", category |-> "misc", total_mentions |-> 0,
       avg_depth |-> [num |-> 0, den |-> 10], articles |-> <<>>],
      [canonical_name |-> "N6", category |-> "other", total_mentions |-> 1,
       avg_depth |-> [num |-> 1, den |-> 8], articles |-> <<SomeArticle(3, 1)>>],
      [canonical_name |-> "N7", category |-> "other", total_mentions |-> 1,
       avg_depth |-> [num |-> 3, den |-> 8], articles |-> <<SomeArticle(7, 4)>>],
      [canonical_name |-> "N8", category |-> "other", total_mentions |-> 1,
       avg_depth |-> [num |-> 2, den |-> 10], articles |-> <<SomeArticle(4, 2)>>],
      [canonical_name |-> "N9", category |-> "industry", total_mentions |-> 11,
       avg_depth |-> [num |-> 1, den |-> 3], articles |-> <<>>],
      [canonical_name |-> "N10", category |-> "tech", total_mentions |-> 5,
       avg_depth |-> [num |-> 0, den |-> 10], articles |-> <<>>],
      [canonical_name |-> "N11", category |-> "misc", total_mentions |-> 10,
       avg_depth |-> [num |-> 0, den |-> 10], articles |-> <<>>],
      [canonical_name |-> "N12", category |-> "tech", total_mentions |-> 0,
       avg_depth |-> [num |-> 10, den |-> 10], articles |-> <<>>] }

Min(a, b) == IF a < b THEN a ELSE b

\* the loop over categories_config['categories'], from entry i on
RECURSIVE CategoryWeight(_, _, _)
CategoryWeight(table, category, i) ==
    IF i > Len(table) THEN DefaultWeight
    ELSE IF table[i].name = category THEN table[i].priority_weight
    ELSE CategoryWeight(table, category, i + 1)

\* MentionScore without the cap of 60 points
MentionScore_NoCap(mention_count) == mention_count * 60

\* min(mention_count / 10.0 * 60, 60), in tenths
MentionScore(mention_count) == Min(mention_count * 60, MentionCap)

\* round(x, 1) of x = n/d tenths, n >= 0: to nearest, an exact tie to even
RoundHalfEven(n, d) ==
    LET q == n \div d
        r == n % d
    IN  IF 2 * r < d THEN q
        ELSE IF 2 * r > d THEN q + 1
        ELSE IF q % 2 = 0 THEN q ELSE q + 1

\* calculate_heat_score without the default weight: a category the table
\* does not list earns no bonus
RECURSIVE CategoryWeight_NoDefault(_, _, _)
CategoryWeight_NoDefault(table, category, i) ==
    IF i > Len(table) THEN 0
    ELSE IF table[i].name = category THEN table[i].priority_weight
    ELSE CategoryWeight_NoDefault(table, category, i + 1)

calculate_heat_score_NoDefault(table, topic_cluster) ==
    LET mention_score == MentionScore(topic_cluster.total_mentions)
        avg_depth == topic_cluster.avg_depth
        category_bonus == CategoryWeight_NoDefault(table, topic_cluster.category, 1)
    IN  RoundHalfEven((mention_score + category_bonus) * avg_depth.den
                          + 300 * avg_depth.num,
                      avg_depth.den)

\* calculate_heat_score, in tenths:
\*   mention_score + avg_depth * 30 + category_weight * 10, rounded
calculate_heat_score(table, topic_cluster) ==
    LET mention_score == MentionScore(topic_cluster.total_mentions)
        avg_depth == topic_cluster.avg_depth
        category_bonus == CategoryWeight(table, topic_cluster.category, 1)
    IN  RoundHalfEven((mention_score + category_bonus) * avg_depth.den
                          + 300 * avg_depth.num,
                      avg_depth.den)

\* {**cluster, 'heat_score': heat_score}; rank is <<>> while the key is absent
ScoredTopic(table, cluster) ==
    [canonical_name |-> cluster.canonical_name, category |-> cluster.category,
     articles |-> cluster.articles, total_mentions |-> cluster.total_mentions,
     avg_depth |-> cluster.avg_depth,
     heat_score |-> calculate_heat_score(table, cluster), rank |-> <<>>]

\* InsertByHeat of a sort that puts x in front of the elements of equal key
RECURSIVE InsertByHeat_BeforeEqual(_, _, _)
InsertByHeat_BeforeEqual(sorted, x, i) ==
    IF i > Len(sorted) THEN Append(sorted, x)
    ELSE IF sorted[i].heat_score <= x.heat_score
    THEN SubSeq(sorted, 1, i - 1) \o <<x>> \o SubSeq(sorted, i, Len(sorted))
    ELSE InsertByHeat_BeforeEqual(sorted, x, i + 1)

\* where list.sort(key=heat_score, reverse=True) leaves x among the already
\* sorted elements: behind every element whose key is not smaller
RECURSIVE InsertByHeat(_, _, _)
InsertByHeat(sorted, x, i) ==
    IF i > Len(sorted) THEN Append(sorted, x)
    ELSE IF sorted[i].heat_score < x.heat_score
    THEN SubSeq(sorted, 1, i - 1) \o <<x>> \o SubSeq(sorted, i, Len(sorted))
    ELSE InsertByHeat(sorted, x, i + 1)

RECURSIVE SortByHeat(_, _, _)
SortByHeat(list, i, sorted) ==
    IF i > Len(list) THEN sorted
    ELSE SortByHeat(list, i + 1, InsertByHeat(sorted, list[i], 1))

\* calculate_all_heat_scores
calculate_all_heat_scores(table, topic_clusters) ==
    SortByHeat([i \in 1..Len(topic_clusters) |-> ScoredTopic(table, topic_clusters[i])],
               1, <<>>)

\* the rank loop of save_heat_scores (it writes into the caller's dicts)
AddRanks(scored) == [i \in 1..Len(scored) |-> [scored[i] EXCEPT !.rank = <<i>>]]

\* the document save_heat_scores dumps
HeatDocument(scored) == [total_topics |-> Len(scored), topics |-> scored]

\* the document save_topics dumps
TopicsDocument(clusters) == [clusters |-> clusters]

(***************************************************************************)
(* scheduler.py: the values of a whole run                                 *)
(***************************************************************************)
MaxTopN == 2                    \* largest topics_per_report of config.json

\* config.json: zhipu_api_key is TRUE when a key is set
Configs ==
    {[zhipu_api_key |-> k, topics_per_report |-> n] : k \in BOOLEAN, n \in 0..MaxTopN}

IdleConfig == [zhipu_api_key |-> TRUE, topics_per_report |-> 0]

TimeSlot == "morning"           \* the time_slot argument of the run

\* the articles A, B and C of three feeds
ScenarioArticles ==
    <<[id |-> 1, link |-> "l1"], [id |-> 2, link |-> "l2"], [id |-> 3, link |-> "l3"]>>

\* fetch_all_articles returns none, some or all of them
ScenarioFetches == {SubSeq(ScenarioArticles, 1, n) : n \in 0..3}

\* the parsed answer of the extraction service for A (X, 0.8), B (X, 0.6)
\* and C (Y, 0.2)
ScenarioAnalysis(article) ==
    IF article.id = 3
    THEN [main_topics |-> <<"Y">>, category |-> "tech", discussion_depth |-> ("Y" :> 2)]
    ELSE [main_topics |-> <<"X">>, category |-> "tech",
          discussion_depth |-> ("X" :> IF article.id = 1 THEN 8 ELSE 6)]

\* what extract_topics_from_article met for one article:
\*   answer  the service answered and the answer was parsed
\*   error   the call or the parsing raised inside the try block
\*   raised  an exception left extract_topics_from_article
ExtractionAnswer(analysis) == [kind |-> "answer", analysis |-> analysis]
ExtractionError == [kind |-> "error", analysis |-> EmptyAnalysis]
ExtractionRaised == [kind |-> "raised", analysis |-> EmptyAnalysis]

\* call_zhipu_ai raises ValueError when no key is configured
ExtractionOutcomes(cfg, article) ==
    IF cfg.zhipu_api_key
    THEN {ExtractionAnswer(ScenarioAnalysis(article)), ExtractionError, ExtractionRaised}
    ELSE {ExtractionError, ExtractionRaised}

GroupX == [canonical_name |-> "X", merged_topics |-> {"X"}, category |-> "other", missing |-> {}]
GroupY == [canonical_name |-> "Y", merged_topics |-> {"Y"}, category |-> "other", missing |-> {}]

RaiseResponse == [kind |-> "raise", size |-> 0, groups |-> <<>>]

\* the outcomes of the clustering call of a run
ScenarioResponses(cfg) ==
    IF cfg.zhipu_api_key
    THEN {RaiseResponse, [kind |-> "object", size |-> 0, groups |-> <<>>]}
         \cup {[kind |-> "array", size |-> Len(g), groups |-> g] :
                  g \in {<<GroupX, GroupY>>, <<GroupY, GroupX>>, <<GroupY>>}}
    ELSE {RaiseResponse}

\* AnalyzeOne leaving out the article whose extraction failed
AnalyzeOne_DropFailed(analyzed, article, outcome) ==
    IF outcome.kind = "answer"
    THEN Append(analyzed, ArticleWithTopics(article, outcome.analysis))
    ELSE analyzed

\* one iteration of the loop of analyze_all_articles
AnalyzeOne(analyzed, article, outcome) ==
    Append(analyzed,
           CASE outcome.kind = "answer" -> ArticleWithTopics(article, outcome.analysis)
             [] outcome.kind = "error" -> ArticleWithTopics(article, EmptyAnalysis)
             [] OTHER -> ArticleFailed(article))

\* `if not topics: return` decided the other way round
AfterCluster_NoAbort(clusters) == "save_topics"

\* if not topics: return
AfterCluster(clusters) == IF clusters = <<>> THEN "aborted" ELSE "save_topics"

\* save_topics that leaves the file as it is
save_topics_NotWritten(file, clusters) == file

\* save_topics: topics.json is opened with 'w'
save_topics(file, clusters) == <<TopicsDocument(clusters)>>

Max(a, b) == IF a > b THEN a ELSE b

\* Slice that takes one element more
Slice_Inclusive(list, n) == SubSeq(list, 1, Min(n + 1, Len(list)))

\* list[:n]: the first n elements, all of them when n exceeds the length;
\* a negative n leaves out the last -n elements
Slice(list, n) ==
    IF n >= 0 THEN SubSeq(list, 1, Min(n, Len(list)))
    ELSE SubSeq(list, 1, Max(Len(list) + n, 0))

get_top_topics(scored, top_n) == Slice(scored, top_n)

\* the stages of a run, in the order of the log lines [1/5] .. [5/5]
StageOrder == <<"fetch", "extract", "cluster", "score", "report">>

\* the stage whose log line precedes the statement at a position; reading the
\* configuration comes before the log line of the extraction
StageAt(position) ==
    CASE position = "fetch" -> <<"fetch">>
      [] position = "extract" -> <<>>
      [] position \in {"cluster", "save_topics"} -> <<"cluster">>
      [] position \in {"score", "save_heat"} -> <<"score">>
      [] OTHER -> <<"report">>

\* the stage log after the statement at the position was reached
EnterStage(log, position) ==
    IF StageAt(position) = <<>> \/ StageAt(position)[1] \in SeqToSet(log) THEN log
    ELSE log \o StageAt(position)

\* a try block that begins after the fetch
OnException_TryAfterFetch(position) ==
    IF position = "fetch" THEN "crashed" ELSE "failed"

\* except Exception as e: logger.error(...): the exception a statement of the
\* try block raises is logged and the function returns
OnException(position) == "failed"

(***************************************************************************)
(* generate_report.py: the report file as a list of blocks                 *)
(***************************************************************************)
\* a block's heading field tells whether its text holds the heading line of
\* the data summary: none, inside (a heading line within the content), cut
\* (the content that was left when the text was split at that line)
TitleBlock == [kind |-> "title", slot |-> "", names |-> <<>>, total_articles |-> 0,
               total_topics |-> 0, heading |-> "none"]

\* report_header + sections + rule of one slot
ContentBlock(time_slot, top, total_articles) ==
    [kind |-> "content", slot |-> time_slot,
     names |-> [i \in 1..Len(top) |-> top[i].canonical_name],
     total_articles |-> total_articles, total_topics |-> Len(top), heading |-> "none"]

\* the data summary update_daily_summary writes
SummaryBlock(time_slot, total_articles, total_topics) ==
    [kind |-> "summary", slot |-> time_slot, names |-> <<>>,
     total_articles |-> total_articles, total_topics |-> total_topics,
     heading |-> "none"]

\* content.split(<summary heading>)[0]: the text before the first heading
\* line, be it the heading of the summary or a heading line inside a content
RECURSIVE BeforeSummary(_, _)
BeforeSummary(file, i) ==
    IF i > Len(file) \/ file[i].kind = "summary" THEN SubSeq(file, 1, i - 1)
    ELSE IF file[i].heading = "inside"
         THEN Append(SubSeq(file, 1, i - 1), [file[i] EXCEPT !.heading = "cut"])
         ELSE BeforeSummary(file, i + 1)

\* write_daily_report up to the call of update_daily_summary; the file
\* that does not exist is <<>>
WithContent(existing, content) ==
    IF existing # <<>>
    THEN Append(BeforeSummary(existing, 1), content)
    ELSE <<TitleBlock, content>>

update_daily_summary(file, summary) == Append(BeforeSummary(file, 1), summary)

\* the outcomes of generate_report:
\*   done          the report and its summary were written
\*   not_written   an exception before the report file was opened for writing
\*   no_summary    an exception in update_daily_summary before it wrote
ReportOutcomes == {"done", "not_written", "no_summary"}

\* write_daily_report(date_str, time_slot, content, total_articles, total_topics)
write_daily_report(file, content) ==
    update_daily_summary(WithContent(file, content),
                         SummaryBlock(content.slot, content.total_articles,
                                      content.total_topics))

generate_report(file, outcome, top, time_slot, total_articles) ==
    LET content == ContentBlock(time_slot, top, total_articles)
    IN  CASE outcome = "not_written" -> file
          [] outcome = "no_summary" -> WithContent(file, content)
          [] OTHER -> update_daily_summary(WithContent(file, content),
                                           SummaryBlock(time_slot, total_articles, Len(top)))

(***************************************************************************)
(* The variables a specification does not use stay at these values         *)
(***************************************************************************)
OrchestratorIdle ==
    /\ config = IdleConfig
    /\ extracted = <<>>
    /\ top_topics = <<>>
    /\ report_file = <<>>
    /\ stages = <<>>

SlotsIdle == runs = <<>> /\ heat_files = <<>>

RepeatIdle == unique_topics = <<>> /\ results = <<>>

TranslateIdle == batch = <<>> /\ translation = NoTranslation /\ translated_articles = <<>>

FetchIdle ==
    /\ feed = <<>>
    /\ retries = 0
    /\ attempt = 0
    /\ attempt_outcomes = <<>>
    /\ fetched = <<>>

DailyIdle == calls = <<>>

(***************************************************************************)
(* scheduler.py: run_analysis_pipeline, from the fetch to the clustering    *)
(***************************************************************************)
Init ==
    /\ pc = "fetch"
    /\ articles = <<>>
    /\ analyzed_articles = <<>>
    /\ response = NoCall
    /\ path = "none"
    /\ all_topics = <<>>
    /\ topics = <<>>
    /\ scored_topics = <<>>
    /\ topics_file = <<>>
    /\ heat_file = <<>>
    /\ printed = <<>>
    /\ categories_config = PipelineTable
    /\ OrchestratorIdle /\ SlotsIdle /\ RepeatIdle /\ TranslateIdle /\ FetchIdle /\ DailyIdle

\* articles = fetch_all_articles(...); if not articles: return
Fetch ==
    /\ pc = "fetch"
    /\ \E r \in FetchResults :
          /\ articles' = r
          /\ pc' = IF r = <<>> THEN "aborted" ELSE "extract"
    /\ UNCHANGED <<analyzed_articles, response, path, all_topics, topics, scored_topics,
                   topics_file, heat_file, printed, categories_config>>
    /\ UNCHANGED <<orchestratorVars, slotVars, repeatVars, translateVars, fetchVars, dailyVars>>

\* one iteration of the loop of analyze_all_articles
AnalyzeArticle ==
    /\ pc = "extract"
    /\ Len(analyzed_articles) < Len(articles)
    /\ LET article == articles[Len(analyzed_articles) + 1]
       IN  \E outcome \in {ArticleWithTopics(article, a) :
                               a \in Annotations(MaxLabels - LabelsReturned(analyzed_articles, 1))
                                    \cup {EmptyAnalysis}}
                          \cup {ArticleFailed(article)} :
              analyzed_articles' = Append(analyzed_articles, outcome)
    /\ pc' = IF Len(analyzed_articles) + 1 = Len(articles) THEN "cluster" ELSE "extract"
    /\ UNCHANGED <<articles, response, path, all_topics, topics, scored_topics,
                   topics_file, heat_file, printed, categories_config>>
    /\ UNCHANGED <<orchestratorVars, slotVars, repeatVars, translateVars, fetchVars, dailyVars>>

\* topics = cluster_topics(analyzed_articles); if not topics: return
ClusterTopics ==
    /\ pc = "cluster"
    /\ LET all == CollectTopics(analyzed_articles, 1)
       IN  /\ all_topics' = all
           /\ IF all = <<>>
              THEN /\ response' = NoCall
                   /\ path' = "early"
                   /\ topics' = <<>>
              ELSE \E resp \in Responses :
                      LET result == AssignClusters(all, resp)
                      IN  /\ response' = resp
                          /\ path' = result.path
                          /\ topics' = result.clusters
    /\ pc' = IF topics' = <<>> THEN "aborted" ELSE "save_topics"
    /\ UNCHANGED <<articles, analyzed_articles, scored_topics,
                   topics_file, heat_file, printed, categories_config>>
    /\ UNCHANGED <<orchestratorVars, slotVars, repeatVars, translateVars, fetchVars, dailyVars>>

Next ==
    \/ Fetch
    \/ AnalyzeArticle
    \/ ClusterTopics

Spec == Init /\ [][Next]_vars

(***************************************************************************)
(* calculate_heat.py run as a script on a topics.json                      *)
(***************************************************************************)
InitHeat ==
    /\ pc = "main_load"
    /\ articles = <<>>
    /\ analyzed_articles = <<>>
    /\ response = NoCall
    /\ path = "none"
    /\ all_topics = <<>>
    /\ topics = <<>>
    /\ scored_topics = <<>>
    /\ topics_file \in {<<TopicsDocument(cs)>> : cs \in SeqsUpTo(HeatInputs, MaxClusters)}
    /\ heat_file = <<>>
    /\ printed = <<>>
    /\ categories_config \in CategoryTables
    /\ OrchestratorIdle /\ SlotsIdle /\ RepeatIdle /\ TranslateIdle /\ FetchIdle /\ DailyIdle

\* topic_clusters = json.load(f)['clusters']
MainLoad ==
    /\ pc = "main_load"
    /\ topics' = topics_file[1].clusters
    /\ pc' = "main_score"
    /\ UNCHANGED <<articles, analyzed_articles, response, path, all_topics, scored_topics,
                   topics_file, heat_file, printed, categories_config>>
    /\ UNCHANGED <<orchestratorVars, slotVars, repeatVars, translateVars, fetchVars, dailyVars>>

\* scored_topics = calculate_all_heat_scores(topic_clusters)
MainScore ==
    /\ pc = "main_score"
    /\ scored_topics' = calculate_all_heat_scores(categories_config, topics)
    /\ pc' = "main_print"
    /\ UNCHANGED <<articles, analyzed_articles, response, path, all_topics, topics,
                   topics_file, heat_file, printed, categories_config>>
    /\ UNCHANGED <<orchestratorVars, slotVars, repeatVars, translateVars, fetchVars, dailyVars>>

\* for topic in scored_topics[:10]: print(topic['rank'], ...)
\* reading a missing 'rank' key raises KeyError, which ends the script
MainPrint ==
    /\ pc = "main_print"
    /\ LET top == SubSeq(scored_topics, 1, Min(TopPrinted, Len(scored_topics)))
       IN  IF \E i \in 1..Len(top) : top[i].rank = <<>>
           THEN /\ pc' = "main_crashed"
                /\ printed' = printed
           ELSE /\ pc' = "main_save"
                /\ printed' = [i \in 1..Len(top) |-> top[i].rank[1]]
    /\ UNCHANGED <<articles, analyzed_articles, response, path, all_topics, topics,
                   scored_topics, topics_file, heat_file, categories_config>>
    /\ UNCHANGED <<orchestratorVars, slotVars, repeatVars, translateVars, fetchVars, dailyVars>>

\* save_heat_scores(scored_topics, date_str, time_slot)
MainSave ==
    /\ pc = "main_save"
    /\ scored_topics' = AddRanks(scored_topics)
    /\ heat_file' = <<HeatDocument(AddRanks(scored_topics))>>
    /\ pc' = "main_done"
    /\ UNCHANGED <<articles, analyzed_articles, response, path, all_topics, topics,
                   topics_file, printed, categories_config>>
    /\ UNCHANGED <<orchestratorVars, slotVars, repeatVars, translateVars, fetchVars, dailyVars>>

NextHeat ==
    \/ MainLoad
    \/ MainScore
    \/ MainPrint
    \/ MainSave

SpecHeat == InitHeat /\ [][NextHeat]_vars

(***************************************************************************)
(* scheduler.py: one whole run of run_analysis_pipeline                    *)
(***************************************************************************)
InitRun ==
    /\ pc = "fetch"
    /\ articles = <<>>
    /\ analyzed_articles = <<>>
    /\ response = NoCall
    /\ path = "none"
    /\ all_topics = <<>>
    /\ topics = <<>>
    /\ scored_topics = <<>>
    /\ topics_file = <<>>
    /\ heat_file = <<>>
    /\ printed = <<>>
    /\ categories_config = PipelineTable
    /\ config \in Configs
    /\ extracted = <<>>
    /\ top_topics = <<>>
    /\ report_file = <<>>
    /\ stages = <<>>
    /\ SlotsIdle /\ RepeatIdle /\ TranslateIdle /\ FetchIdle /\ DailyIdle

\* articles = fetch_all_articles(hours_ago=24); if not articles: return
RunFetch ==
    /\ pc = "fetch"
    /\ stages' = Append(stages, "fetch")
    /\ \E r \in ScenarioFetches :
          /\ articles' = r
          /\ pc' = IF r = <<>> THEN "aborted" ELSE "extract"
    /\ UNCHANGED <<analyzed_articles, response, path, all_topics, topics, scored_topics,
                   topics_file, heat_file, printed, categories_config,
                   config, extracted, top_topics, report_file>>
    /\ UNCHANGED <<slotVars, repeatVars, translateVars, fetchVars, dailyVars>>

\* one iteration of the loop of analyze_all_articles
RunAnalyze ==
    /\ pc = "extract"
    /\ Len(extracted) < Len(articles)
    /\ stages' = IF extracted = <<>> THEN Append(stages, "extract") ELSE stages
    /\ LET article == articles[Len(extracted) + 1]
       IN  \E outcome \in ExtractionOutcomes(config, article) :
              /\ extracted' = Append(extracted, outcome)
              /\ analyzed_articles' = AnalyzeOne(analyzed_articles, article, outcome)
    /\ pc' = IF Len(extracted) + 1 = Len(articles) THEN "cluster" ELSE "extract"
    /\ UNCHANGED <<articles, response, path, all_topics, topics, scored_topics,
                   topics_file, heat_file, printed, categories_config,
                   config, top_topics, report_file>>
    /\ UNCHANGED <<slotVars, repeatVars, translateVars, fetchVars, dailyVars>>

\* topics = cluster_topics(analyzed_articles); if not topics: return
RunCluster ==
    /\ pc = "cluster"
    /\ stages' = Append(stages, "cluster")
    /\ LET all == CollectTopics(analyzed_articles, 1)
       IN  /\ all_topics' = all
           /\ IF all = <<>>
              THEN /\ response' = NoCall
                   /\ path' = "early"
                   /\ topics' = <<>>
              ELSE \E resp \in ScenarioResponses(config) :
                      LET result == AssignClusters(all, resp)
                      IN  /\ response' = resp
                          /\ path' = result.path
                          /\ topics' = result.clusters
    /\ pc' = AfterCluster(topics')
    /\ UNCHANGED <<articles, analyzed_articles, scored_topics,
                   topics_file, heat_file, printed, categories_config,
                   config, extracted, top_topics, report_file>>
    /\ UNCHANGED <<slotVars, repeatVars, translateVars, fetchVars, dailyVars>>

\* save_topics(topics, today)
RunSaveTopics ==
    /\ pc = "save_topics"
    /\ topics_file' = save_topics(topics_file, topics)
    /\ pc' = "score"
    /\ UNCHANGED <<articles, analyzed_articles, response, path, all_topics, topics,
                   scored_topics, heat_file, printed, categories_config,
                   orchestratorVars>>
    /\ UNCHANGED <<slotVars, repeatVars, translateVars, fetchVars, dailyVars>>

\* scored_topics = calculate_all_heat_scores(topics)
RunScore ==
    /\ pc = "score"
    /\ stages' = Append(stages, "score")
    /\ scored_topics' = calculate_all_heat_scores(categories_config, topics)
    /\ pc' = "save_heat"
    /\ UNCHANGED <<articles, analyzed_articles, response, path, all_topics, topics,
                   topics_file, heat_file, printed, categories_config,
                   config, extracted, top_topics, report_file>>
    /\ UNCHANGED <<slotVars, repeatVars, translateVars, fetchVars, dailyVars>>

\* save_heat_scores(scored_topics, today, time_slot)
RunSaveHeat ==
    /\ pc = "save_heat"
    /\ scored_topics' = AddRanks(scored_topics)
    /\ heat_file' = <<HeatDocument(AddRanks(scored_topics))>>
    /\ pc' = "select"
    /\ UNCHANGED <<articles, analyzed_articles, response, path, all_topics, topics,
                   topics_file, printed, categories_config, orchestratorVars>>
    /\ UNCHANGED <<slotVars, repeatVars, translateVars, fetchVars, dailyVars>>

\* topics_per_report = min(config[...], len(scored_topics));
\* top_topics = scored_topics[:topics_per_report]
RunSelect ==
    /\ pc = "select"
    /\ top_topics' = Slice(scored_topics, Min(config.topics_per_report, Len(scored_topics)))
    /\ pc' = "report"
    /\ UNCHANGED <<articles, analyzed_articles, response, path, all_topics, topics,
                   scored_topics, topics_file, heat_file, printed, categories_config,
                   config, extracted, report_file, stages>>
    /\ UNCHANGED <<slotVars, repeatVars, translateVars, fetchVars, dailyVars>>

\* generate_report(top_topics, time_slot, today, len(articles)); an exception
\* is caught and logged by the except clause of run_analysis_pipeline
RunReport ==
    /\ pc = "report"
    /\ stages' = Append(stages, "report")
    /\ \E outcome \in ReportOutcomes :
          /\ report_file' = generate_report(report_file, outcome, top_topics,
                                            TimeSlot, Len(articles))
          /\ pc' = IF outcome = "done" THEN "done" ELSE OnException("report")
    /\ UNCHANGED <<articles, analyzed_articles, response, path, all_topics, topics,
                   scored_topics, topics_file, heat_file, printed, categories_config,
                   config, extracted, top_topics>>
    /\ UNCHANGED <<slotVars, repeatVars, translateVars, fetchVars, dailyVars>>

\* the positions whose statement can raise before it has had an effect:
\* fetch_all_articles (configuration, saving the raw articles), load_config
\* and its keys, cluster_topics outside its own try block, save_topics,
\* calculate_all_heat_scores, save_heat_scores, the topics_per_report key
RaisingPositions ==
    {"fetch", "extract", "cluster", "save_topics", "score", "save_heat", "select"}

\* a statement of the try block raises: control passes to the except clause
RunRaise ==
    /\ pc \in RaisingPositions
    /\ pc = "extract" => extracted = <<>>
    /\ stages' = EnterStage(stages, pc)
    /\ pc' = OnException(pc)
    /\ UNCHANGED <<articles, analyzed_articles, response, path, all_topics, topics,
                   scored_topics, topics_file, heat_file, printed, categories_config,
                   config, extracted, top_topics, report_file>>
    /\ UNCHANGED <<slotVars, repeatVars, translateVars, fetchVars, dailyVars>>

NextRun ==
    \/ RunFetch
    \/ RunAnalyze
    \/ RunCluster
    \/ RunSaveTopics
    \/ RunScore
    \/ RunSaveHeat
    \/ RunSelect
    \/ RunReport
    \/ RunRaise

SpecRun == InitRun /\ [][NextRun]_vars

\* the run is one thread of straight-line code whose only loops range over
\* finite lists; a library call it makes returns or raises, so the statement
\* the run is at is eventually executed
SpecRunFair == SpecRun /\ WF_vars(NextRun)

(***************************************************************************)
(* scheduler.py: the runs of two time slots of one day, which may overlap  *)
(* (two jobs of the scheduler's thread pool, or a manual run beside it)    *)
(***************************************************************************)
Slots == {"morning", "evening"}

\* the locals of a run that has not started
IdleRun ==
    [pc |-> "fetch", articles |-> <<>>, topics |-> <<>>, scored_topics |-> <<>>,
     top_topics |-> <<>>, existing_content |-> <<>>]

\* what the feeds hold in the last 24 hours when a slot's run fetches
SlotFetches == {<<>>, SubSeq(ScenarioArticles, 1, 1), SubSeq(ScenarioArticles, 3, 3)}

SlotsConfig == [zhipu_api_key |-> TRUE, topics_per_report |-> MaxTopN]

\* the orders in which list(set(...)) may enumerate the labels of the instances
UniqueOrders(all) ==
    LET labels == {all[k].topic : k \in 1..Len(all)}
    IN  {u \in SeqsUpTo(labels, Cardinality(labels)) :
            Len(u) = Cardinality(labels) /\ SeqToSet(u) = labels}

\* analyze_all_articles on articles whose extractions end as `outcomes` say
RECURSIVE analyze_all_articles(_, _, _, _)
analyze_all_articles(arts, outcomes, i, analyzed) ==
    IF i > Len(arts) THEN analyzed
    ELSE analyze_all_articles(arts, outcomes, i + 1,
                              AnalyzeOne(analyzed, arts[i], outcomes[i]))

\* the outcome lists the extraction may produce for the articles
RECURSIVE OutcomeLists(_, _, _)
OutcomeLists(cfg, arts, i) ==
    IF i > Len(arts) THEN {<<>>}
    ELSE {<<o>> \o rest : o \in ExtractionOutcomes(cfg, arts[i]),
                          rest \in OutcomeLists(cfg, arts, i + 1)}

\* the clusters named by the labels of unique, in the order of unique
RECURSIVE InPromptOrder(_, _, _)
InPromptOrder(clusters, unique, i) ==
    IF i > Len(unique) THEN <<>>
    ELSE LET Named(c) == c.canonical_name = unique[i]
         IN  SelectSeq(clusters, Named) \o InPromptOrder(clusters, unique, i + 1)

\* cluster_topics returning its clusters in the order of the label list
cluster_topics_ByPromptOrder(articles_with_topics, unique, resp) ==
    LET all == CollectTopics(articles_with_topics, 1)
    IN  IF all = <<>> THEN <<>>
        ELSE InPromptOrder(AssignClusters(all, resp).clusters, unique, 1)

\* cluster_topics: unique is the label list of the prompt, resp the outcome
\* of the clustering call
cluster_topics(articles_with_topics, unique, resp) ==
    LET all == CollectTopics(articles_with_topics, 1)
    IN  IF all = <<>> THEN <<>> ELSE AssignClusters(all, resp).clusters

InitSlots ==
    /\ pc = "slots"
    /\ articles = <<>>
    /\ analyzed_articles = <<>>
    /\ response = NoCall
    /\ path = "none"
    /\ all_topics = <<>>
    /\ topics = <<>>
    /\ scored_topics = <<>>
    /\ topics_file = <<>>
    /\ heat_file = <<>>
    /\ printed = <<>>
    /\ categories_config = PipelineTable
    /\ config = SlotsConfig
    /\ extracted = <<>>
    /\ top_topics = <<>>
    /\ report_file = <<>>
    /\ stages = <<>>
    /\ runs = [s \in Slots |-> IdleRun]
    /\ heat_files = [s \in Slots |-> <<>>]
    /\ RepeatIdle /\ TranslateIdle /\ FetchIdle /\ DailyIdle

\* the variables no run of a slot touches
slotFrame ==
    <<pc, articles, analyzed_articles, response, path, all_topics, topics, scored_topics,
      heat_file, printed, categories_config, config, extracted, top_topics, stages,
      repeatVars, translateVars, fetchVars, dailyVars>>

\* articles = fetch_all_articles(hours_ago=24); if not articles: return
SlotFetch(s) ==
    /\ runs[s].pc = "fetch"
    /\ \E r \in SlotFetches :
          runs' = [runs EXCEPT ![s].articles = r,
                               ![s].pc = IF r = <<>> THEN "aborted" ELSE "analyze"]
    /\ UNCHANGED <<topics_file, heat_files, report_file, slotFrame>>

\* analyze_all_articles and cluster_topics; if not topics: return
SlotAnalyze(s) ==
    /\ runs[s].pc = "analyze"
    /\ \E outcomes \in OutcomeLists(config, runs[s].articles, 1) :
       \E resp \in ScenarioResponses(config) :
          LET analyzed == analyze_all_articles(runs[s].articles, outcomes, 1, <<>>)
              clusters == cluster_topics(analyzed, <<>>, resp)
          IN  runs' = [runs EXCEPT ![s].topics = clusters,
                                   ![s].pc = AfterCluster(clusters)]
    /\ UNCHANGED <<topics_file, heat_files, report_file, slotFrame>>

\* save_topics(topics, today)
SlotSaveTopics(s) ==
    /\ runs[s].pc = "save_topics"
    /\ topics_file' = save_topics(topics_file, runs[s].topics)
    /\ runs' = [runs EXCEPT ![s].pc = "score"]
    /\ UNCHANGED <<heat_files, report_file, slotFrame>>

\* calculate_all_heat_scores, save_heat_scores(scored_topics, today,
\* time_slot) and the selection of top_topics
SlotScore(s) ==
    /\ runs[s].pc = "score"
    /\ LET scored == AddRanks(calculate_all_heat_scores(categories_config, runs[s].topics))
       IN  /\ heat_files' = [heat_files EXCEPT ![s] = <<HeatDocument(scored)>>]
           /\ runs' = [runs EXCEPT
                          ![s].scored_topics = scored,
                          ![s].top_topics =
                              Slice(scored, Min(config.topics_per_report, Len(scored))),
                          ![s].pc = "report_read"]
    /\ UNCHANGED <<topics_file, report_file, slotFrame>>

\* write_daily_report: os.path.exists(report_file) and the read
SlotReportRead(s) ==
    /\ runs[s].pc = "report_read"
    /\ runs' = [runs EXCEPT ![s].existing_content = report_file,
                            ![s].pc = "report_write"]
    /\ UNCHANGED <<topics_file, heat_files, report_file, slotFrame>>

\* write_daily_report: the file is opened with 'w' and written
SlotReportWrite(s) ==
    /\ runs[s].pc = "report_write"
    /\ report_file' = WithContent(runs[s].existing_content,
                                  ContentBlock(s, runs[s].top_topics, Len(runs[s].articles)))
    /\ runs' = [runs EXCEPT ![s].pc = "report_summary"]
    /\ UNCHANGED <<topics_file, heat_files, slotFrame>>

\* update_daily_summary
SlotReportSummary(s) ==
    /\ runs[s].pc = "report_summary"
    /\ report_file' = update_daily_summary(report_file,
                          SummaryBlock(s, Len(runs[s].articles), Len(runs[s].top_topics)))
    /\ runs' = [runs EXCEPT ![s].pc = "done"]
    /\ UNCHANGED <<topics_file, heat_files, slotFrame>>

NextSlots ==
    \E s \in Slots :
        \/ SlotFetch(s)
        \/ SlotAnalyze(s)
        \/ SlotSaveTopics(s)
        \/ SlotScore(s)
        \/ SlotReportRead(s)
        \/ SlotReportWrite(s)
        \/ SlotReportSummary(s)

SpecSlots == InitSlots /\ [][NextSlots]_vars

(***************************************************************************)
(* analyze_topics.py: cluster_topics executed twice on the same input      *)
(***************************************************************************)
\* analysed articles as analyze_all_articles may return them
RepeatLabels == {<<"X">>, <<"Y">>, <<"X", "Y">>, <<"Y", "X">>}
RepeatInputs ==
    UNION {{[i \in 1..Len(f) |->
                ArticleWithTopics(f[i], [main_topics |-> t[i], category |-> "tech",
                                         discussion_depth |-> ("X" :> 8)])] :
               t \in {u \in SeqsUpTo(RepeatLabels, Len(f)) : Len(u) = Len(f)}} :
           f \in FetchResults}

\* the outcomes of the clustering call that leave an execution with the same
\* proposed grouping as resp: resp itself and, when resp makes the try block
\* fail, the call that raises (both executions then take the except block)
SameGrouping(all, resp) ==
    {resp} \cup (IF TryGrouped(all, resp).raised THEN {RaiseResponse} ELSE {})

InitRepeat ==
    /\ pc = "repeat"
    /\ articles = <<>>
    /\ analyzed_articles \in RepeatInputs
    /\ response \in Responses
    /\ path = "none"
    /\ all_topics = <<>>
    /\ topics = <<>>
    /\ scored_topics = <<>>
    /\ topics_file = <<>>
    /\ heat_file = <<>>
    /\ printed = <<>>
    /\ categories_config = PipelineTable
    /\ unique_topics = <<>>
    /\ results = <<>>
    /\ OrchestratorIdle /\ SlotsIdle /\ TranslateIdle /\ FetchIdle /\ DailyIdle

\* one execution of cluster_topics(analyzed_articles)
Recluster ==
    /\ Len(results) < 2
    /\ LET all == CollectTopics(analyzed_articles, 1)
       IN  \E unique \in UniqueOrders(all) : \E resp \in SameGrouping(all, response) :
              /\ unique_topics' = Append(unique_topics, unique)
              /\ results' = Append(results, cluster_topics(analyzed_articles, unique, resp))
    /\ UNCHANGED <<pc, articles, analyzed_articles, response, path, all_topics, topics,
                   scored_topics, topics_file, heat_file, printed, categories_config>>
    /\ UNCHANGED <<orchestratorVars, slotVars, translateVars, fetchVars, dailyVars>>

NextRepeat == Recluster

SpecRepeat == InitRepeat /\ [][NextRepeat]_vars

(***************************************************************************)
(* generate_report.py: translate_articles_batch                            *)
(***************************************************************************)
MaxBatch == 2       \* articles handed to one translation call
MaxEntries == 2     \* entries of a translation answer

\* the articles of a cluster as generate_report passes them on
BatchArticles ==
    {[title |-> t, summary |-> m] : t \in {"t1", "t2"}, m \in {"s1", ""}}

\* the entries a translation answer may hold: a dict with title and summary,
\* a dict that lacks some of them (`missing`), or a value that is no dict
TranslationEntries ==
    { [shape |-> "dict", title |-> "T", summary |-> "S", missing |-> {}],
      [shape |-> "dict", title |-> "", summary |-> "S", missing |-> {"title"}],
      [shape |-> "dict", title |-> "", summary |-> "", missing |-> {"title", "summary"}],
      [shape |-> "other", title |-> "", summary |-> "", missing |-> {}] }

\* outcomes of call_zhipu_ai + json.loads in translate_articles_batch:
\*   raise       the call raises
\*   unparsable  json.loads raises
\*   scalar      a JSON number, boolean or null
\*   object      a JSON object or string with `size` members
\*   array       a JSON array of entries
TranslationResponses ==
    {[kind |-> k, size |-> 0, entries |-> <<>>] : k \in {"raise", "unparsable", "scalar"}}
    \cup {[kind |-> "object", size |-> n, entries |-> <<>>] : n \in {0, 1}}
    \cup {[kind |-> "array", size |-> Len(e), entries |-> e] :
             e \in SeqsUpTo(TranslationEntries, MaxEntries)}

\* the except block: every article with its own title and summary
Untranslated(arts) ==
    [i \in 1..Len(arts) |->
        [title |-> arts[i].title, summary |-> arts[i].summary,
         title_cn |-> arts[i].title, summary_cn |-> arts[i].summary]]

\* the loop over zip(articles, translations), from pair i on; raised = the
\* .get of a value that is no dict raised
RECURSIVE MergeLoop(_, _, _, _)
MergeLoop(arts, translations, i, translated) ==
    IF i > Len(arts) \/ i > Len(translations)
    THEN [raised |-> FALSE, list |-> translated]
    ELSE LET art == arts[i]
             trans == translations[i]
         IN  IF trans.shape # "dict"
             THEN [raised |-> TRUE, list |-> translated]
             ELSE MergeLoop(arts, translations, i + 1,
                      Append(translated,
                             [title |-> art.title, summary |-> art.summary,
                              title_cn |-> IF "title" \in trans.missing
                                           THEN art.title ELSE trans.title,
                              summary_cn |-> IF "summary" \in trans.missing
                                             THEN art.summary ELSE trans.summary]))

translate_articles_batch(arts, resp) ==
    CASE resp.kind \in {"raise", "unparsable", "scalar"} -> Untranslated(arts)
      [] resp.kind = "object" ->
            \* zip pairs the articles with the members (strings)
            IF resp.size > 0 /\ arts # <<>> THEN Untranslated(arts) ELSE <<>>
      [] OTHER ->
            LET merge == MergeLoop(arts, resp.entries, 1, <<>>)
            IN  IF merge.raised THEN Untranslated(arts) ELSE merge.list

InitTranslate ==
    /\ pc = "translate"
    /\ articles = <<>>
    /\ analyzed_articles = <<>>
    /\ response = NoCall
    /\ path = "none"
    /\ all_topics = <<>>
    /\ topics = <<>>
    /\ scored_topics = <<>>
    /\ topics_file = <<>>
    /\ heat_file = <<>>
    /\ printed = <<>>
    /\ categories_config = PipelineTable
    /\ batch \in SeqsUpTo(BatchArticles, MaxBatch)
    /\ translation = NoTranslation
    /\ translated_articles = <<>>
    /\ OrchestratorIdle /\ SlotsIdle /\ RepeatIdle /\ FetchIdle /\ DailyIdle

\* translated_articles = translate_articles_batch(sorted_articles)
Translate ==
    /\ pc = "translate"
    /\ \E resp \in TranslationResponses :
          /\ translation' = resp
          /\ translated_articles' = translate_articles_batch(batch, resp)
    /\ pc' = "translated"
    /\ UNCHANGED <<articles, analyzed_articles, response, path, all_topics, topics,
                   scored_topics, topics_file, heat_file, printed, categories_config, batch>>
    /\ UNCHANGED <<orchestratorVars, slotVars, repeatVars, fetchVars, dailyVars>>

NextTranslate == Translate

SpecTranslate == InitTranslate /\ [][NextTranslate]_vars

(***************************************************************************)
(* fetch_blogs.py: fetch_rss_source, the fetch of one source               *)
(***************************************************************************)
MaxRetries == 2     \* the largest retries argument
MaxFeed == 2        \* entries of the feed

\* an entry is dated inside the time window, dated outside it, or has no
\* date parse_published_date can read
EntryKinds == {"in_window", "out_of_window", "undated"}

\* the feeds: entry i is the i-th entry of feed.entries
Feeds ==
    UNION {{[i \in 1..n |-> [entry |-> i, kind |-> k[i]]] : k \in [1..n -> EntryKinds]} :
           n \in 0..MaxFeed}

\* the article dict built from an entry
ArticleOfEntry(e) == [entry |-> e.entry]

\* for entry in feed.entries, from entry i to entry last: an entry without a
\* date or outside the window is skipped, the others are appended
RECURSIVE EntryLoop(_, _, _, _)
EntryLoop(entries, i, last, acc) ==
    IF i > last THEN acc
    ELSE EntryLoop(entries, i + 1, last,
                   IF entries[i].kind = "in_window"
                   THEN Append(acc, ArticleOfEntry(entries[i]))
                   ELSE acc)

\* how one attempt can end:
\*   request_error  requests.get, raise_for_status or feedparser.parse raised
\*   bozo           the feed is malformed and has no entries: continue
\*   entry_error    building the article dict of the in-window entry `at` raised
\*   complete       the loop over the entries finished: return articles
AttemptOutcomes(entries) ==
    {[kind |-> "request_error", at |-> 0], [kind |-> "complete", at |-> 0]}
    \cup (IF entries = <<>> THEN {[kind |-> "bozo", at |-> 0]} ELSE {})
    \cup {[kind |-> "entry_error", at |-> j] :
             j \in {i \in 1..Len(entries) : entries[i].kind = "in_window"}}

\* the list `articles`, which is created once before the loop over the
\* attempts, after one more attempt
AfterAttempt(list, entries, outcome) ==
    CASE outcome.kind = "complete" -> EntryLoop(entries, 1, Len(entries), list)
      [] outcome.kind = "entry_error" -> EntryLoop(entries, 1, outcome.at - 1, list)
      [] OTHER -> list

InitFetch ==
    /\ pc = "attempt"
    /\ articles = <<>>
    /\ analyzed_articles = <<>>
    /\ response = NoCall
    /\ path = "none"
    /\ all_topics = <<>>
    /\ topics = <<>>
    /\ scored_topics = <<>>
    /\ topics_file = <<>>
    /\ heat_file = <<>>
    /\ printed = <<>>
    /\ categories_config = PipelineTable
    /\ feed \in Feeds
    /\ retries \in 0..MaxRetries
    /\ attempt = 0
    /\ attempt_outcomes = <<>>
    /\ fetched = <<>>
    /\ OrchestratorIdle /\ SlotsIdle /\ RepeatIdle /\ TranslateIdle /\ DailyIdle

\* one iteration of `for attempt in range(retries)`
FetchAttempt ==
    /\ pc = "attempt"
    /\ attempt < retries
    /\ \E outcome \in AttemptOutcomes(feed) :
          /\ articles' = AfterAttempt(articles, feed, outcome)
          /\ attempt_outcomes' = Append(attempt_outcomes, outcome)
          /\ IF outcome.kind = "complete"
             THEN /\ fetched' = articles'
                  /\ pc' = "returned"
                  /\ attempt' = attempt
             ELSE /\ fetched' = fetched
                  /\ pc' = "attempt"
                  /\ attempt' = attempt + 1
    /\ UNCHANGED <<analyzed_articles, response, path, all_topics, topics, scored_topics,
                   topics_file, heat_file, printed, categories_config, feed, retries>>
    /\ UNCHANGED <<orchestratorVars, slotVars, repeatVars, translateVars, dailyVars>>

\* the loop over the attempts is exhausted: logger.error(...); return []
FetchExhausted ==
    /\ pc = "attempt"
    /\ attempt >= retries
    /\ fetched' = <<>>
    /\ pc' = "returned"
    /\ UNCHANGED <<articles, analyzed_articles, response, path, all_topics, topics,
                   scored_topics, topics_file, heat_file, printed, categories_config,
                   feed, retries, attempt, attempt_outcomes>>
    /\ UNCHANGED <<orchestratorVars, slotVars, repeatVars, translateVars, dailyVars>>

NextFetch ==
    \/ FetchAttempt
    \/ FetchExhausted

SpecFetch == InitFetch /\ [][NextFetch]_vars

(***************************************************************************)
(* generate_report.py: the calls of write_daily_report of one date         *)
(***************************************************************************)
MaxCalls == 3       \* calls of write_daily_report for the date

\* the topic lists of a report
DailyTops == {<<>>, <<[canonical_name |-> "X"]>>}

\* the content of a call: the header and the topic sections of a slot; the
\* recommendation and the article titles and summaries in it are text of the
\* language model and of the feeds, which may hold the heading line
DailyContents ==
    {[ContentBlock(s, top, 1) EXCEPT !.heading = h] :
        s \in Slots, top \in DailyTops, h \in {"none", "inside"}}

InitDaily ==
    /\ pc = "daily"
    /\ articles = <<>>
    /\ analyzed_articles = <<>>
    /\ response = NoCall
    /\ path = "none"
    /\ all_topics = <<>>
    /\ topics = <<>>
    /\ scored_topics = <<>>
    /\ topics_file = <<>>
    /\ heat_file = <<>>
    /\ printed = <<>>
    /\ categories_config = PipelineTable
    /\ calls = <<>>
    /\ OrchestratorIdle /\ SlotsIdle /\ RepeatIdle /\ TranslateIdle /\ FetchIdle

\* one call of write_daily_report that returns
WriteDailyReport ==
    /\ pc = "daily"
    /\ Len(calls) < MaxCalls
    /\ \E content \in DailyContents :
          /\ report_file' = write_daily_report(report_file, content)
          /\ calls' = Append(calls, content)
    /\ UNCHANGED <<pc, articles, analyzed_articles, response, path, all_topics, topics,
                   scored_topics, topics_file, heat_file, printed, categories_config,
                   config, extracted, top_topics, stages>>
    /\ UNCHANGED <<slotVars, repeatVars, translateVars, fetchVars>>

NextDaily == WriteDailyReport

SpecDaily == InitDaily /\ [][NextDaily]_vars

(***************************************************************************)
(* Properties of the cluster assignment                                    *)
(***************************************************************************)
\* cluster_topics has returned in this run
Clustered == path # "none"

\* the try block ran to its end (the grouped result was returned)
GroupedPath == path = "grouped"

\* the except block produced the result
FallbackPath == path = "fallback"

\* the (cluster, position) pairs of the article entries of a cluster list
Entries(clusters) ==
    UNION {{<<c, i>> : i \in 1..Len(clusters[c].articles)} : c \in 1..Len(clusters)}

\* the ascending sequence of a finite set of integers
RECURSIVE Ascending(_)
Ascending(S) ==
    IF S = {} THEN <<>>
    ELSE LET m == CHOOSE x \in S : \A y \in S : x <= y
         IN  <<m>> \o Ascending(S \ {m})

\* C1: in the list cluster_topics returns, every article link occurs in at
\* most one cluster and at most once inside it, on the grouped path and on
\* the fallback path alike.
C1_Exclusivity ==
    \A e1, e2 \in Entries(topics) :
        e1 # e2 => topics[e1[1]].articles[e1[2]].link # topics[e2[1]].articles[e2[2]].link

\* C1 witness: two instances of one link carry labels that two different
\* groups of a well-formed answer merge, and clusters were returned.
C1_Witness ==
    /\ GroupedPath
    /\ topics # <<>>
    /\ \E i, j \in 1..Len(all_topics) : \E g, h \in 1..Len(response.groups) :
          /\ i # j /\ g # h
          /\ all_topics[i].article.link = all_topics[j].article.link
          /\ all_topics[i].article.id # all_topics[j].article.id
          /\ all_topics[i].topic \in response.groups[g].merged_topics
          /\ all_topics[j].topic \in response.groups[h].merged_topics

\* the groups (by position) whose merged_topics hold a label of link l
GroupsOfLink(l) ==
    {g \in 1..Len(response.groups) :
        \E k \in 1..Len(all_topics) :
            /\ all_topics[k].article.link = l
            /\ all_topics[k].topic \in response.groups[g].merged_topics}

\* the instances group g keeps: the first instance of each link whose
\* earliest matching group is g
KeptInstances(g) ==
    {k \in 1..Len(all_topics) :
        /\ all_topics[k].topic \in response.groups[g].merged_topics
        /\ \A h \in GroupsOfLink(all_topics[k].article.link) : g <= h
        /\ \A k2 \in 1..(k - 1) :
              ~(/\ all_topics[k2].article.link = all_topics[k].article.link
                /\ all_topics[k2].topic \in response.groups[g].merged_topics)}

\* C2: on the grouped path the groups are processed in the order given: an
\* article whose labels occur in several groups lands in the earliest such
\* group only, and the emitted clusters are the non-empty groups in the
\* order of the answer.
C2_FirstGroupWins ==
    GroupedPath /\ response.kind = "array" =>
        LET emitted == Ascending({g \in 1..Len(response.groups) : KeptInstances(g) # {}})
        IN  /\ Len(topics) = Len(emitted)
            /\ \A p \in 1..Len(emitted) :
                  LET kept == Ascending(KeptInstances(emitted[p]))
                  IN  /\ topics[p].canonical_name = response.groups[emitted[p]].canonical_name
                      /\ topics[p].articles = [n \in 1..Len(kept) |-> Snapshot(all_topics[kept[n]])]

\* C2 witness: an article has labels in two groups, the later group still
\* emits a cluster from another article, and two clusters are returned.
C2_Witness ==
    /\ GroupedPath /\ response.kind = "array"
    /\ Len(topics) = 2
    /\ \E k \in 1..Len(all_topics) :
          /\ Cardinality(GroupsOfLink(all_topics[k].article.link)) = 2
          /\ \E e \in Entries(topics) :
                /\ e[1] = 1
                /\ topics[1].articles[e[2]].link = all_topics[k].article.link

\* C3: no empty cluster is returned; on both paths total_mentions is the
\* length of the article list and at least 1.
C3_NoEmptyCluster ==
    \A c \in 1..Len(topics) :
        /\ topics[c].total_mentions = Len(topics[c].articles)
        /\ topics[c].total_mentions >= 1

\* C3 witness: a well-formed answer holds a group whose matching articles
\* were all claimed by an earlier group; it was dropped, another was emitted.
C3_Witness ==
    /\ GroupedPath /\ response.kind = "array"
    /\ topics # <<>>
    /\ \E g \in 1..Len(response.groups) :
          /\ KeptInstances(g) = {}
          /\ \E k \in 1..Len(all_topics) :
                all_topics[k].topic \in response.groups[g].merged_topics

\* the non-empty labels of article a up to label position j
RealLabels(a, j) ==
    {n \in 1..Len(analyzed_articles[a].main_topics) :
        n <= j /\ analyzed_articles[a].main_topics[n] # ""}

RECURSIVE InstancesBefore(_)
InstancesBefore(a) ==
    IF a <= 1 THEN 0
    ELSE InstancesBefore(a - 1)
         + Cardinality(RealLabels(a - 1, Len(analyzed_articles[a - 1].main_topics)))

\* C4: one instance per non-empty label of main_topics, in article order
\* then label order, with the depth of the article's map or 0.5 (5 tenths)
\* when the label is missing; an article without a non-empty label has no
\* instance and is in no cluster.
C4_TopicInstances ==
    Clustered =>
        /\ Len(all_topics) = InstancesBefore(Len(analyzed_articles) + 1)
        /\ \A a \in 1..Len(analyzed_articles) :
              LET art == analyzed_articles[a]
              IN  /\ \A j \in RealLabels(a, Len(art.main_topics)) :
                        LET ti == all_topics[InstancesBefore(a) + Cardinality(RealLabels(a, j))]
                        IN  /\ ti.topic = art.main_topics[j]
                            /\ ti.article = art
                            /\ ti.depth = IF art.main_topics[j] \in DOMAIN art.discussion_depth
                                          THEN art.discussion_depth[art.main_topics[j]]
                                          ELSE 5
                  /\ RealLabels(a, Len(art.main_topics)) = {} =>
                        /\ \A k \in 1..Len(all_topics) : all_topics[k].article.id # art.id
                        /\ \A e \in Entries(topics) :
                              topics[e[1]].articles[e[2]].article # art.id

\* C4 witness: clusters were returned for articles of which one has only an
\* empty label and another a label that its depth map lacks.
C4_Witness ==
    /\ Clustered
    /\ topics # <<>>
    /\ \E a, b \in 1..Len(analyzed_articles) :
          /\ analyzed_articles[a].main_topics = <<"">>
          /\ \E j \in 1..Len(analyzed_articles[b].main_topics) :
                /\ analyzed_articles[b].main_topics[j] # ""
                /\ analyzed_articles[b].main_topics[j] \notin DOMAIN analyzed_articles[b].discussion_depth

\* the answer of the clustering service is a failure or is malformed: the
\* call raised, the text is no JSON, the JSON is no array, or a group lacks
\* canonical_name or merged_topics
Malformed(resp) ==
    \/ resp.kind \in {"raise", "unparsable", "scalar", "object"}
    \/ /\ resp.kind = "array"
       /\ \E g \in 1..Len(resp.groups) :
             resp.groups[g].missing \cap {"canonical_name", "merged_topics"} # {}

\* C5: whenever the clustering call fails or its output is unparsable or
\* malformed, cluster_topics returns exactly the fallback clusters of the
\* topic instances and the run goes on to scoring.
C5_FailureFallsBack ==
    Clustered /\ response.kind # "none" /\ Malformed(response) =>
        /\ topics = Fallback(all_topics)
        /\ pc # "aborted"

\* the first instance that carries link l
FirstInstance(l) ==
    CHOOSE k \in 1..Len(all_topics) :
        /\ all_topics[k].article.link = l
        /\ \A k2 \in 1..(k - 1) : all_topics[k2].article.link # l

ClusterNames == {topics[c].canonical_name : c \in 1..Len(topics)}

\* every entry of a fallback cluster is the first instance of its link, and
\* that instance carries the cluster's label
OnlyFirstLabelArticles ==
    \A e \in Entries(topics) :
        LET entry == topics[e[1]].articles[e[2]]
            first == all_topics[FirstInstance(entry.link)]
        IN  /\ entry = Snapshot(first)
            /\ first.topic = topics[e[1]].canonical_name

\* C6 as stated: after a failed clustering call the clusters are exactly one
\* per distinct label present in the instances, each holding only articles
\* whose first-encountered instance carried that label.
C6_OnePerLabel ==
    FallbackPath =>
        /\ Len(topics) = Cardinality({all_topics[k].topic : k \in 1..Len(all_topics)})
        /\ ClusterNames = {all_topics[k].topic : k \in 1..Len(all_topics)}
        /\ OnlyFirstLabelArticles

\* C6 amended: after a failed clustering call the clusters are exactly one
\* per distinct label that is the label of the first-encountered instance of
\* at least one article link, each holding only articles whose
\* first-encountered instance carried that label.
C6_OnePerFirstLabel ==
    FallbackPath =>
        LET firstLabels == {all_topics[FirstInstance(all_topics[k].article.link)].topic :
                                k \in 1..Len(all_topics)}
        IN  /\ Len(topics) = Cardinality(firstLabels)
            /\ ClusterNames = firstLabels
            /\ OnlyFirstLabelArticles

\* C6 witness: the call raised and an article carries two different labels,
\* the second of which no article carries first.
C6_Witness ==
    /\ FallbackPath
    /\ response.kind = "raise"
    /\ \E a \in 1..Len(analyzed_articles) :
          /\ analyzed_articles[a].main_topics = <<"X", "Y">>
          /\ "Y" \notin ClusterNames
          /\ "X" \in ClusterNames

\* the clusters of the fallback path are those of the instances in `kept`:
\* one cluster per label of a kept instance, in the order of the first kept
\* instance of each label, each holding the kept instances of its label in
\* extraction order
FallbackKeeps(kept) ==
    /\ ClusterNames = {all_topics[k].topic : k \in kept}
    /\ \A c \in 1..Len(topics) :
          LET mine == Ascending({k \in kept : all_topics[k].topic = topics[c].canonical_name})
          IN  /\ topics[c].articles = [n \in 1..Len(mine) |-> Snapshot(all_topics[mine[n]])]
              /\ \A d \in 1..(c - 1) :
                    \E k \in kept :
                        /\ all_topics[k].topic = topics[d].canonical_name
                        /\ mine # <<>> => k < mine[1]

\* C20 as stated: on the fallback path the instances are processed in
\* extraction order and an instance is skipped only when its article is
\* already mapped to a different label; an instance whose article is
\* unmapped or mapped to the same label is attached to that label's cluster.
C20_SkipOtherLabelOnly ==
    FallbackPath =>
        FallbackKeeps({k \in 1..Len(all_topics) :
                          all_topics[FirstInstance(all_topics[k].article.link)].topic
                              = all_topics[k].topic})

\* C20 amended: on the fallback path the instances are processed in
\* extraction order and an instance is skipped whenever its article link is
\* already mapped, to the same label or to another; only an instance whose
\* article link is unmapped is attached to its label's cluster.
C20_SkipWheneverMapped ==
    FallbackPath =>
        FallbackKeeps({k \in 1..Len(all_topics) :
                          FirstInstance(all_topics[k].article.link) = k})

\* C20 witness: on the fallback path a later instance of an already mapped
\* article link carries the label the link is mapped to.
C20_Witness ==
    /\ FallbackPath
    /\ topics # <<>>
    /\ \E k \in 1..Len(all_topics) :
          LET first == FirstInstance(all_topics[k].article.link)
          IN  first < k /\ all_topics[first].topic = all_topics[k].topic

(***************************************************************************)
(* Properties of the heat scorer                                           *)
(***************************************************************************)
\* calculate_all_heat_scores has returned in this run of the script
Scored == pc \in {"main_print", "main_save", "main_done", "main_crashed"}

WeightOf(c) == CategoryWeight(categories_config, c.category, 1)

SameInputs(c, d) ==
    /\ c.avg_depth.num * d.avg_depth.den = d.avg_depth.num * c.avg_depth.den
    /\ WeightOf(c) = WeightOf(d)

\* C7: with total_mentions >= 0, avg_depth in [0,1] and a weight in [0,1] the
\* score lies in [0,100] (0..1000 tenths); (10, 1.0, 1.0) scores 100 and
\* (0, 0, 0) scores 0; 20 mentions score what 10 mentions score.
C7_HeatBounds ==
    Scored =>
        \A i \in 1..Len(scored_topics) :
            LET c == scored_topics[i]
            IN  (/\ c.total_mentions >= 0
                 /\ 0 <= c.avg_depth.num /\ c.avg_depth.num <= c.avg_depth.den
                 /\ 0 <= WeightOf(c) /\ WeightOf(c) <= 100)
                =>
                /\ 0 <= c.heat_score /\ c.heat_score <= 1000
                /\ (c.total_mentions = 10 /\ c.avg_depth.num = c.avg_depth.den
                      /\ WeightOf(c) = 100) => c.heat_score = 1000
                /\ (c.total_mentions = 0 /\ c.avg_depth.num = 0 /\ WeightOf(c) = 0)
                      => c.heat_score = 0
                /\ \A j \in 1..Len(scored_topics) :
                      (/\ c.total_mentions = 20
                       /\ scored_topics[j].total_mentions = 10
                       /\ SameInputs(c, scored_topics[j]))
                      => c.heat_score = scored_topics[j].heat_score

\* C7 witness: one run scored a cluster of 20 mentions, one of 10 mentions
\* with the same depth 1.0 and weight 1.0, and one of (0, 0, 0).
C7_Witness ==
    /\ Scored
    /\ \E i, j, k \in 1..Len(scored_topics) :
          /\ scored_topics[i].total_mentions = 20
          /\ scored_topics[j].total_mentions = 10
          /\ SameInputs(scored_topics[i], scored_topics[j])
          /\ WeightOf(scored_topics[j]) = 100
          /\ scored_topics[j].avg_depth.num = scored_topics[j].avg_depth.den
          /\ scored_topics[k].total_mentions = 0
          /\ scored_topics[k].avg_depth.num = 0
          /\ WeightOf(scored_topics[k]) = 0

\* C8: under one category table, clusters with equal total_mentions, equal
\* avg_depth and categories of equal weight (an unlisted category weighing
\* 0.5) get the same heat_score, whatever their names, article lists or
\* positions.
C8_ScoreDeterminism ==
    Scored =>
        \A i, j \in 1..Len(scored_topics) :
            (/\ scored_topics[i].total_mentions = scored_topics[j].total_mentions
             /\ SameInputs(scored_topics[i], scored_topics[j]))
            => scored_topics[i].heat_score = scored_topics[j].heat_score

\* C8 witness: two clusters of different name, article list and category,
\* one category unlisted, agree in mentions, depth and weight.
C8_Witness ==
    /\ Scored
    /\ \E i, j \in 1..Len(scored_topics) :
          /\ i # j
          /\ scored_topics[i].canonical_name # scored_topics[j].canonical_name
          /\ scored_topics[i].articles # scored_topics[j].articles
          /\ scored_topics[i].category # scored_topics[j].category
          /\ \A n \in 1..Len(categories_config) :
                categories_config[n].name # scored_topics[i].category
          /\ scored_topics[i].total_mentions = scored_topics[j].total_mentions
          /\ SameInputs(scored_topics[i], scored_topics[j])

\* the elements of a scored list whose heat_score is h, ranks left aside
WithHeat(list, h) ==
    LET Keep(x) == x.heat_score = h
        kept == SelectSeq(list, Keep)
    IN  [n \in 1..Len(kept) |-> [kept[n] EXCEPT !.rank = <<>>]]

\* the input clusters with their scores, in input order
ScoredInput == [n \in 1..Len(topics) |-> ScoredTopic(categories_config, topics[n])]

\* C9: calculate_all_heat_scores returns a permutation of its input ordered
\* by heat_score descending, and clusters of equal heat_score keep the
\* relative order of the input.
C9_StableSort ==
    Scored =>
        /\ Len(scored_topics) = Len(topics)
        /\ \A i \in 1..(Len(scored_topics) - 1) :
              scored_topics[i].heat_score >= scored_topics[i + 1].heat_score
        /\ \A h \in {ScoredInput[n].heat_score : n \in 1..Len(topics)}
                    \cup {scored_topics[n].heat_score : n \in 1..Len(scored_topics)} :
              WithHeat(scored_topics, h) = WithHeat(ScoredInput, h)

\* C9 witness: the sort moved a cluster forward and the list holds two
\* different clusters of equal heat_score.
C9_Witness ==
    /\ Scored
    /\ Len(scored_topics) = 3
    /\ \E n \in 1..Len(topics) : scored_topics[n].canonical_name # topics[n].canonical_name
    /\ \E i, j \in 1..Len(scored_topics) :
          /\ i < j
          /\ scored_topics[i].heat_score = scored_topics[j].heat_score
          /\ scored_topics[i].canonical_name # scored_topics[j].canonical_name

\* C10: once the scoring stage has sorted the clusters, wherever the list is
\* read afterwards (printing the top list, persisting) every cluster carries
\* the rank of its 1-based position, and ranks descend with the heat_score.
C10_RankAssigned ==
    Scored =>
        /\ \A i \in 1..Len(scored_topics) : scored_topics[i].rank = <<i>>
        /\ \A i \in 1..(Len(scored_topics) - 1) :
              scored_topics[i].heat_score >= scored_topics[i + 1].heat_score

(***************************************************************************)
(* Properties of a whole run                                               *)
(***************************************************************************)
\* run_analysis_pipeline has entered the stage
Entered(stage) == stage \in SeqToSet(stages)

\* top_topics has been computed
Selected == pc \in {"report", "done"} \/ (pc = "failed" /\ top_topics # <<>>)

\* C11: for every configured N (a count, 0 included) and every ranked list of
\* length L the selected topics are exactly the first min(N, L) clusters of
\* the ranked list in rank order, nothing added and none skipped; the same
\* holds for get_top_topics.
C11_TopN ==
    Selected =>
        LET N == config.topics_per_report
            L == Len(scored_topics)
        IN  /\ Len(top_topics) = (IF N < L THEN N ELSE L)
            /\ \A i \in 1..Len(top_topics) : top_topics[i] = scored_topics[i]
            /\ get_top_topics(scored_topics, N) = top_topics

\* C11 witness: a selection that truncates (1 <= N < L).
C11_Witness ==
    /\ Selected
    /\ config.topics_per_report >= 1
    /\ config.topics_per_report < Len(scored_topics)
    /\ top_topics # <<>>

\* articles A, B, C all answered by the extraction (X 0.8, X 0.6, Y 0.2), a
\* grouping of one group for X and one for Y, both of weight 0.5
ScenarioInputs ==
    /\ articles = ScenarioArticles
    /\ Len(extracted) = 3
    /\ \A i \in 1..3 : extracted[i] = ExtractionAnswer(ScenarioAnalysis(articles[i]))
    /\ response.kind = "array"
    /\ Len(response.groups) = 2
    /\ {response.groups[1], response.groups[2]} = {GroupX, GroupY}
    /\ \A g \in 1..2 :
          CategoryWeight(categories_config, response.groups[g].category, 1) = 50

\* the cluster c has this name, this many mentions and this average depth
\* (in tenths) and holds exactly these articles in this order
IsCluster(c, name, mentions, tenths, ids) ==
    /\ c.canonical_name = name
    /\ c.total_mentions = mentions
    /\ c.avg_depth.num * 10 = tenths * c.avg_depth.den
    /\ [i \in 1..Len(c.articles) |-> c.articles[i].article] = ids

\* C12: in the scenario, clustering yields cluster X (A and B, 2 mentions,
\* average depth 0.7) and cluster Y (C, 1 mention, 0.2); scoring yields the
\* order [X, Y] with heat 38.0 and 17.0; the persisted list carries the
\* ranks 1 and 2.
C12_Scenario ==
    ScenarioInputs =>
        /\ path = "grouped"
        /\ Len(topics) = 2
        /\ \E x, y \in 1..2 :
              /\ IsCluster(topics[x], "X", 2, 7, <<1, 2>>)
              /\ IsCluster(topics[y], "Y", 1, 2, <<3>>)
        /\ (Entered("score") /\ pc # "failed") =>
              /\ Len(scored_topics) = 2
              /\ IsCluster(scored_topics[1], "X", 2, 7, <<1, 2>>)
              /\ scored_topics[1].heat_score = 380
              /\ IsCluster(scored_topics[2], "Y", 1, 2, <<3>>)
              /\ scored_topics[2].heat_score = 170
        /\ heat_file # <<>> =>
              /\ scored_topics[1].rank = <<1>>
              /\ scored_topics[2].rank = <<2>>
              /\ heat_file[1].topics = scored_topics

\* C12 witness: the scenario with the group for Y answered first, scored
\* and persisted.
C12_Witness ==
    /\ ScenarioInputs
    /\ response.groups[1] = GroupY
    /\ heat_file # <<>>
    /\ pc = "done"

NoArtifact == topics_file = <<>> /\ heat_file = <<>> /\ report_file = <<>>

\* C13: a fetch that returns zero articles, or a clustering (fallback
\* included) that returns zero clusters, ends the run there: no later stage is
\* entered and the run has written no topics, heat-score or report artifact.
C13_EarlyAbort ==
    /\ (Entered("fetch") /\ articles = <<>> /\ pc # "failed") =>
          /\ pc = "aborted"
          /\ stages = <<"fetch">>
          /\ NoArtifact
    /\ (Entered("cluster") /\ topics = <<>> /\ pc # "failed") =>
          /\ pc = "aborted"
          /\ stages = <<"fetch", "extract", "cluster">>
          /\ NoArtifact
          /\ scored_topics = <<>> /\ top_topics = <<>>

\* C13 witness: topic instances existed, the grouping matched none of them,
\* and the run was aborted after the clustering.
C13_Witness ==
    /\ pc = "aborted"
    /\ Entered("cluster")
    /\ path = "grouped"
    /\ response.kind = "array"
    /\ all_topics # <<>>

\* C14: for any pattern of extraction failures analyze_all_articles returns
\* one record per input article in input order; a failed article has empty
\* main_topics, the others keep what the extraction answered, and the run
\* goes on to the clustering.
C14_PartialFailure ==
    /\ Len(analyzed_articles) = Len(extracted)
    /\ \A i \in 1..Len(analyzed_articles) :
          /\ analyzed_articles[i].id = articles[i].id
          /\ analyzed_articles[i].link = articles[i].link
          /\ extracted[i].kind # "answer" => analyzed_articles[i].main_topics = <<>>
          /\ extracted[i].kind = "answer" =>
                /\ analyzed_articles[i].main_topics = extracted[i].analysis.main_topics
                /\ analyzed_articles[i].discussion_depth = extracted[i].analysis.discussion_depth
                /\ analyzed_articles[i].category = extracted[i].analysis.category
    /\ (articles # <<>> /\ Len(extracted) = Len(articles)) =>
          (pc = "cluster" \/ Entered("cluster"))

\* C14 witness: of three articles one extraction failed inside the try
\* block, one raised, one answered, and the clustering produced clusters.
C14_Witness ==
    /\ Len(articles) = 3
    /\ Entered("cluster")
    /\ topics # <<>>
    /\ {extracted[i].kind : i \in 1..Len(extracted)} = {"answer", "error", "raised"}

\* C15: the topics artifact is written before the scoring starts and the
\* heat-score artifact before the reporting starts, and however the
\* reporting fails both artifacts are present and are what the run wrote.
C15_Durability ==
    /\ Entered("score") => topics_file = <<TopicsDocument(topics)>>
    /\ Entered("report") => heat_file = <<HeatDocument(scored_topics)>>
    /\ (pc = "failed" /\ Entered("report")) =>
          /\ topics_file = <<TopicsDocument(topics)>>
          /\ heat_file = <<HeatDocument(scored_topics)>>

\* C15 witness: the reporting failed after the report file was written.
C15_Witness ==
    /\ pc = "failed"
    /\ Entered("report")
    /\ report_file # <<>>
    /\ topics_file # <<>>
    /\ heat_file # <<>>

\* C16: when the API key of the language model is not set, the error is
\* raised at startup: neither the fetch nor any other stage is entered and
\* the missing key is never turned into degraded data.
C16_ConfigFatal ==
    ~config.zhipu_api_key =>
        /\ stages = <<>>
        /\ analyzed_articles = <<>>
        /\ pc \in {"fetch", "config_error"}

\* the states in which run_analysis_pipeline has returned
RunEnds == {"done", "aborted", "failed"}

\* C21: a run enters the stages in the order fetch, extract, cluster, score,
\* report, each at most once (its stage log is always a prefix of that list,
\* so no stage is retried); an exception raised inside any stage is caught
\* and logged and never leaves run_analysis_pipeline; a finished run stays
\* finished, and every run finishes, in done or in an aborted or failed end
\* state.
C21_Lifecycle ==
    /\ [](/\ Len(stages) <= Len(StageOrder)
          /\ stages = SubSeq(StageOrder, 1, Len(stages))
          /\ pc # "crashed")
    /\ [][(pc \in RunEnds) => (vars' = vars)]_vars
    /\ <>[](pc \in RunEnds)

\* C21 witness: the scoring raised after the topics were saved; the run
\* ended failed with the first four stages entered once each.
C21_Witness ==
    /\ pc = "failed"
    /\ stages = <<"fetch", "extract", "cluster", "score">>
    /\ topics_file # <<>>
    /\ scored_topics = <<>>

(***************************************************************************)
(* Properties of the runs of two slots                                     *)
(***************************************************************************)
\* C17: every artifact a run persists is keyed by date and slot, so the run
\* of another slot of the same date, later or interleaved, never overwrites
\* or alters it: the clusters, the scored topics and the report content a
\* run has written stay as that run wrote them.
C17_SlotIsolation ==
    \A s \in Slots :
        /\ runs[s].pc \in {"score", "report_read", "report_write", "report_summary", "done"}
              => topics_file = <<TopicsDocument(runs[s].topics)>>
        /\ runs[s].pc \in {"report_read", "report_write", "report_summary", "done"}
              => heat_files[s] = <<HeatDocument(runs[s].scored_topics)>>
        /\ runs[s].pc \in {"report_summary", "done"}
              => \E i \in 1..Len(report_file) :
                    report_file[i] = ContentBlock(s, runs[s].top_topics,
                                                  Len(runs[s].articles))

(***************************************************************************)
(* Properties of repeated clustering                                       *)
(***************************************************************************)
\* C18: executions of the cluster assignment on identical analysed articles
\* and identical proposed groupings (or all on the fallback path) return
\* identical lists: the same clusters in the same order with the same
\* articles in the same order, whatever order the set of unique labels was
\* enumerated in.
C18_OrderStable ==
    \A i, j \in 1..Len(results) : results[i] = results[j]

\* C18 witness: two executions enumerated the labels in different orders and
\* each returned two clusters.
C18_Witness ==
    /\ Len(results) = 2
    /\ unique_topics[1] # unique_topics[2]
    /\ Len(results[1]) = 2
    /\ Len(results[2]) = 2

(***************************************************************************)
(* Properties of the translation                                           *)
(***************************************************************************)
\* the answer holds a usable translation of key k for the article at i
Translates(i, k) ==
    /\ translation.kind = "array"
    /\ \A n \in 1..Len(translation.entries) :
          n <= Len(batch) => translation.entries[n].shape = "dict"
    /\ i <= Len(translation.entries)
    /\ k \notin translation.entries[i].missing

\* C19: whatever the translation service does (error, unparsable answer,
\* fewer or malformed entries) translate_articles_batch returns one record
\* per input article in input order, with the translation where one is
\* available and the original title and summary everywhere else.
C19_KeepsEveryArticle ==
    pc = "translated" =>
        /\ Len(translated_articles) = Len(batch)
        /\ \A i \in 1..Len(translated_articles) :
              /\ translated_articles[i].title = batch[i].title
              /\ translated_articles[i].summary = batch[i].summary
              /\ translated_articles[i].title_cn =
                    IF Translates(i, "title") THEN translation.entries[i].title
                    ELSE batch[i].title
              /\ translated_articles[i].summary_cn =
                    IF Translates(i, "summary") THEN translation.entries[i].summary
                    ELSE batch[i].summary

(***************************************************************************)
(* Properties of the fetch of one source                                   *)
(***************************************************************************)
\* C22: fetch_rss_source makes at most `retries` attempts, makes no attempt
\* after one that completed, returns the empty list when every attempt
\* failed, and the list it returns holds each in-window entry of the feed at
\* most once, also when an earlier attempt failed after it had collected
\* entries.
C22_FetchRetry ==
    /\ Len(attempt_outcomes) <= retries
    /\ \A i \in 1..Len(attempt_outcomes) :
          attempt_outcomes[i].kind = "complete" =>
              (i = Len(attempt_outcomes) /\ pc = "returned")
    /\ pc = "returned" =>
          /\ (\A i \in 1..Len(attempt_outcomes) : attempt_outcomes[i].kind # "complete")
                => fetched = <<>>
          /\ \A i, j \in 1..Len(fetched) : fetched[i] = fetched[j] => i = j

(***************************************************************************)
(* Properties of the daily report                                          *)
(***************************************************************************)
\* C23: after any sequence of write_daily_report calls for one date the
\* report file is the title header, once and first, then the content of
\* every call, whole and in call order, then one data summary, last, which
\* is the summary of the most recent call.
C23_DailyStructure ==
    calls # <<>> =>
        LET last == calls[Len(calls)]
        IN  /\ Len(report_file) = Len(calls) + 2
            /\ report_file[1] = TitleBlock
            /\ \A k \in 1..Len(calls) : report_file[k + 1] = calls[k]
            /\ report_file[Len(report_file)] =
                  SummaryBlock(last.slot, last.total_articles, last.total_topics)

====
